---------------------------- MODULE Spec2Model ----------------------------
(***************************************************************************)
(* Concurrent link checker of website-analyzer: CheckLinks, its worker     *)
(* pool, the join goroutine and the per-domain circuit breaker             *)
(* (internal/analyzer/checker.go).                                         *)
(*                                                                         *)
(* One CheckLinks call is modelled as a set of processes: the caller's     *)
(* goroutine (pc), config.MaxWorkers worker goroutines (workers), the join *)
(* goroutine (jpc) and the wall clock (Tick).                              *)
(*                                                                         *)
(* Time is counted in seconds.  The program reads the clock in two places  *)
(* only: recordFailure stamps lastAttempt[domain] = time.Now(), and allow  *)
(* tests time.Since(lastAttempt[domain]) >= retryDelay.  The model         *)
(* therefore keeps, for each stamped domain, the time since its stamp:     *)
(* 0 when stamped, one more with every second that passes, and no further  *)
(* than retryDelay, beyond which allow answers the same.  This covers      *)
(* calls of any duration with finitely many states.                        *)
(***************************************************************************)
EXTENDS Integers, Sequences, FiniteSets, Bags, TLC

\* ------------------------------------------------------------------ bounds
\* Largest positive config.MaxWorkers explored.
MaxW == 2
\* Longest batch of links to a single always-failing domain.
MaxLinks == 7
\* Longest batch in which every position ranges over every kind of link.
MaxMixed == 2
\* Length of the batch that alternates bad.com and good.com links.
MaxInter == 11
\* Length of the batch to the domain that recovers.
MaxRecover == 9
\* Longest batch over the servers of the status and redirect scenarios.
MaxStatus == 2
\* Largest config.MaxRedirects explored.
MaxLimit == 4
\* Length of the batch to the domain that goes down and comes back.
MaxFlap == 8
\* Length of the batch that is run twice without tripping the breaker.
MaxRerun == 3

\* ------------------------------------------------------- program constants
\* newCircuitBreaker(5) in CheckLinks.
maxFailures == 5
\* circuitBreaker.successThreshold.
successThreshold == 3
\* circuitBreaker.retryDelay, in seconds.
retryDelay == 2

\* The worker count the fallback of MaxWorkers <= 0 is documented to use.
DefaultWorkers == 10

\* MaxRedirects of the breaker tests.
TestRedirects == 3
\* Timeout of the breaker tests, in milliseconds.
TestTimeout == 100

\* A nil error.
Nil == "<nil>"

\* ------------------------------------------------------------------ state
VARIABLES
    links,          \* CheckLinks argument
    config,         \* CheckLinks argument: [MaxWorkers, MaxRedirects, Timeout]
    pc,             \* where the caller's goroutine is in CheckLinks
    next,           \* index of the next link the send loop enqueues
    jobs,           \* buffered channel jobs: its queued links
    jobsClosed,     \* close(jobs) has run
    results,        \* buffered channel results: its queued checkResults
    resultsClosed,  \* close(results) has run
    wg,             \* sync.WaitGroup counter
    workers,        \* the worker goroutines: a bag of [pc, link, result, trial]
    cb,             \* the circuitBreaker: maps failures, successes, lastAttempt
    jpc,            \* where the join goroutine is
    errors,         \* the slice CheckLinks builds and returns
    calls,          \* history: transport round trips per host (the mock's calls)
    probed,         \* history: checkLink invocations per link index
    skipped,        \* history: breaker denials per link index
    elapsed,        \* history: retryDelay has passed since a readable stamp
    streak,         \* history: per domain, the successes reported to the
                    \* breaker since the last failure (up to successThreshold)
    healed,         \* transport: the recovering domain has stopped failing
    session,        \* caller: the batches it passes to CheckLinks, in order
    batch,          \* caller: which batch of the session the current call is
    log             \* history: what each earlier call of the session left

vars == <<links, config, pc, next, jobs, jobsClosed, results, resultsClosed, wg,
          workers, cb, jpc, errors, calls, probed, skipped, elapsed, streak,
          healed, session, batch, log>>

chanVars == <<jobs, jobsClosed, results, resultsClosed>>
histVars == <<calls, probed, skipped, elapsed, streak>>
envVars == <<healed, session, batch, log>>

\* ------------------------------------------------------------- environment
\* Hosts served by the (injected) transport.
Hosts == {"bad.com", "good.com", "missing.com"}

\* A URL string: well formed "http://<host>/<path>", or a string that
\* url.Parse and http.NewRequest both reject.
URL(h, p) == [host |-> h, path |-> p, wellFormed |-> TRUE]
BadURL(p) == [host |-> "", path |-> p, wellFormed |-> FALSE]

\* The kinds of link a batch position can hold (the path is the position).
LinkKinds(p) == {URL(h, p) : h \in Hosts} \cup {BadURL(p)}

\* failDomain of mockTransportWithRecovery: it fails until failUntil and
\* answers 200 afterwards.
failDomain == "recovering.com"

\* Servers of the status, timeout and redirect scenarios: moved.com answers
\* 301 without a Location, broken.com 500, slow.com answers after two
\* seconds, and hopK.com is K redirects away from good.com.
StatusHosts ==
    {"moved.com", "broken.com", "slow.com", "hop1.com", "hop2.com", "hop3.com"}

\* Every host the transport can be asked for.
Servers == Hosts \cup StatusHosts \cup {failDomain}

\* A response without a transport error.
Response(code, location) ==
    [StatusCode |-> code, Location |-> location, err |-> Nil]
\* A transport error.
Failure(text) == [StatusCode |-> 0, Location |-> "", err |-> text]

\* What the transport answers for a host: a response with a status code, or
\* an error.  bad.com always fails, failDomain fails until it has healed,
\* the others always answer the same.
RoundTrip(host) ==
    CASE host = "bad.com"               -> Failure("simulated network error")
      [] host = failDomain /\ ~healed   -> Failure("simulated network error")
      [] host = "missing.com"           -> Response(404, "")
      [] host = "broken.com"            -> Response(500, "")
      [] host = "moved.com"             -> Response(301, "")
      [] host = "hop1.com"              -> Response(302, "good.com")
      [] host = "hop2.com"              -> Response(302, "hop1.com")
      [] host = "hop3.com"              -> Response(302, "hop2.com")
      [] OTHER                          -> Response(200, "")

\* How long a host takes to answer, in milliseconds.
Latency(host) == IF host = "slow.com" THEN 2000 ELSE 1

\* fmt.Errorf("HTTP %d: %s", code, http.StatusText(code)) for the codes the
\* transport produces.
HTTPError(code) ==
    CASE code = 404 -> "HTTP 404: Not Found"
      [] code = 500 -> "HTTP 500: Internal Server Error"
      [] OTHER      -> "HTTP error"

\* ---------------------------------------------------------------- inputs
\* Batches of n links to one host, paths 1..n.
Mono(h, n) == [i \in 1..n |-> URL(h, i)]
\* n links alternating bad.com and good.com, bad.com first.
Interleaved(n) == [i \in 1..n |-> URL(IF i % 2 = 1 THEN "bad.com" ELSE "good.com", i)]
\* Every batch of at most MaxMixed links over all kinds of link.
Mixed == UNION {{s \in [1..n -> UNION {LinkKinds(p) : p \in 1..n}] :
                    \A i \in 1..n : s[i].path = i} : n \in 0..MaxMixed}

\* The kinds of link of the status, timeout and redirect scenarios.
StatusKinds(p) ==
    {URL(h, p) : h \in StatusHosts \cup Hosts} \cup {BadURL(p)}
\* Every non-empty batch of at most MaxStatus such links, and a batch to the
\* slow server that is long enough to trip its breaker.
StatusBatches ==
    UNION {{s \in [1..n -> UNION {StatusKinds(p) : p \in 1..n}] :
               \A i \in 1..n : s[i].path = i} : n \in 1..MaxStatus}
        \cup {Mono("slow.com", maxFailures + 1)}

\* The batches of the general specification.
Batches == Mixed \cup {Mono("bad.com", n) : n \in maxFailures..MaxLinks}

\* config.MaxWorkers as the environment can set it (MAX_WORKERS is any int).
WorkerCounts == (-1)..MaxW

\* A Go map read: the zero value when the key is absent.
Get(m, k) == IF k \in DOMAIN m THEN m[k] ELSE 0
\* A Go map write.
Put(m, k, v) == [x \in DOMAIN m \cup {k} |-> IF x = k THEN v ELSE m[x]]
\* delete(m, k).
Delete(m, k) == [x \in DOMAIN m \ {k} |-> m[x]]
EmptyMap == [x \in {} |-> 0]

NoLink == [host |-> "", path |-> 0, wellFormed |-> FALSE]
NoResult == [url |-> NoLink, statusCode |-> 0, err |-> Nil]
\* A worker goroutine waiting at range jobs; it holds no link and no result.
\* trial is history: the probe in flight was admitted while the domain
\* had maxFailures failures on record (a half-open trial).
Idle == [pc |-> "recv", link |-> NoLink, result |-> NoResult, trial |-> FALSE]

\* newCircuitBreaker: three empty maps (maxFailures, successThreshold and
\* retryDelay are the constants above).
newCircuitBreaker ==
    [failures |-> EmptyMap, successes |-> EmptyMap, lastAttempt |-> EmptyMap]

\* A stamp the program can still read: allow reads lastAttempt[domain] only
\* once failures[domain] has reached maxFailures, and every recordFailure
\* on the way there overwrites the stamp.
readable(b, d) == Get(b.failures, d) >= maxFailures

\* time.Since(b.lastAttempt[domain]) for a stamped domain.
Since(b, domain) == b.lastAttempt[domain]

\* allow comparing the elapsed time with > : the domain stays blocked at
\* exactly retryDelay.
allowStrictDelay(b, domain) ==
    LET failCount == Get(b.failures, domain) IN
    IF failCount < maxFailures THEN TRUE
    ELSE IF domain \notin DOMAIN b.lastAttempt
            \/ Since(b, domain) > retryDelay THEN TRUE
    ELSE FALSE

\* allow without the open state: every probe is admitted.
allowAlways(b, domain) == TRUE

\* allow comparing with <= : the breaker opens one failure late.
allowOffByOne(b, domain) ==
    LET failCount == Get(b.failures, domain) IN
    IF failCount <= maxFailures THEN TRUE
    ELSE IF domain \notin DOMAIN b.lastAttempt
            \/ Since(b, domain) >= retryDelay THEN TRUE
    ELSE FALSE

\* circuitBreaker.allow.
allow(b, domain) ==
    LET failCount == Get(b.failures, domain) IN
    IF failCount < maxFailures THEN TRUE
    ELSE IF domain \notin DOMAIN b.lastAttempt
            \/ Since(b, domain) >= retryDelay THEN TRUE
    ELSE FALSE

\* recordFailure without the lastAttempt stamp.
recordFailureUnstamped(b, domain) ==
    [failures    |-> Put(b.failures, domain, Get(b.failures, domain) + 1),
     successes   |-> Put(b.successes, domain, 0),
     lastAttempt |-> b.lastAttempt]

\* recordFailure keeping one counter for all hosts: a failure of one domain
\* is counted against every domain.
recordFailureShared(b, domain) ==
    [failures    |-> [h \in Hosts |-> Get(b.failures, h) + 1],
     successes   |-> [h \in Hosts |-> 0],
     lastAttempt |-> [h \in Hosts |-> 0]]

\* recordFailure without failures[domain]++.
recordFailureUncounted(b, domain) ==
    [failures    |-> b.failures,
     successes   |-> Put(b.successes, domain, 0),
     lastAttempt |-> Put(b.lastAttempt, domain, 0)]

\* recordFailure without successes[domain] = 0.
recordFailureKeepsSuccesses(b, domain) ==
    [failures    |-> Put(b.failures, domain, Get(b.failures, domain) + 1),
     successes   |-> b.successes,
     lastAttempt |-> Put(b.lastAttempt, domain, 0)]

\* recordFailure without the lock: a failure reported while another probe of
\* the domain is in flight is written over by that probe's report.
recordFailureLosing(b, domain) ==
    IF Cardinality({v \in BagToSet(workers) :
                        v.pc = "probe" /\ v.link.host = domain}) > 1
    THEN [failures    |-> b.failures,
          successes   |-> Put(b.successes, domain, 0),
          lastAttempt |-> Put(b.lastAttempt, domain, 0)]
    ELSE [failures    |-> Put(b.failures, domain, Get(b.failures, domain) + 1),
          successes   |-> Put(b.successes, domain, 0),
          lastAttempt |-> Put(b.lastAttempt, domain, 0)]

\* circuitBreaker.recordFailure: the breaker afterwards.  The stamp is
\* time.Now(), so no time has passed since it.
recordFailure(b, domain) ==
    [failures    |-> Put(b.failures, domain, Get(b.failures, domain) + 1),
     successes   |-> Put(b.successes, domain, 0),
     lastAttempt |-> Put(b.lastAttempt, domain, 0)]

\* recordSuccess that at the threshold clears successes and lastAttempt and
\* leaves failures[domain] as it is.
recordSuccessKeepsFailures(b, domain) ==
    LET failCount == Get(b.failures, domain)
        succ == Get(b.successes, domain) + 1
    IN  IF failCount >= maxFailures
        THEN IF succ >= successThreshold
             THEN [failures    |-> b.failures,
                   successes   |-> Put(b.successes, domain, 0),
                   lastAttempt |-> Delete(b.lastAttempt, domain)]
             ELSE [b EXCEPT !.successes = Put(b.successes, domain, succ)]
        ELSE b

\* recordSuccess that forgives: below maxFailures a success clears the
\* failures of the domain.
recordSuccessForgives(b, domain) ==
    LET failCount == Get(b.failures, domain)
        succ == Get(b.successes, domain) + 1
    IN  IF failCount >= maxFailures
        THEN IF succ >= successThreshold
             THEN [failures    |-> Put(b.failures, domain, 0),
                   successes   |-> Put(b.successes, domain, 0),
                   lastAttempt |-> Delete(b.lastAttempt, domain)]
             ELSE [b EXCEPT !.successes = Put(b.successes, domain, succ)]
        ELSE [b EXCEPT !.failures = Put(b.failures, domain, 0)]

\* recordSuccess that at the threshold deletes the entries of the domain
\* from all three maps.
recordSuccessForgets(b, domain) ==
    LET failCount == Get(b.failures, domain)
        succ == Get(b.successes, domain) + 1
    IN  IF failCount >= maxFailures
        THEN IF succ >= successThreshold
             THEN [failures    |-> Delete(b.failures, domain),
                   successes   |-> Delete(b.successes, domain),
                   lastAttempt |-> Delete(b.lastAttempt, domain)]
             ELSE [b EXCEPT !.successes = Put(b.successes, domain, succ)]
        ELSE b

\* recordSuccess comparing with > : the reset comes one success late.
recordSuccessLateReset(b, domain) ==
    LET failCount == Get(b.failures, domain)
        succ == Get(b.successes, domain) + 1
    IN  IF failCount >= maxFailures
        THEN IF succ > successThreshold
             THEN [failures    |-> Put(b.failures, domain, 0),
                   successes   |-> Put(b.successes, domain, 0),
                   lastAttempt |-> Delete(b.lastAttempt, domain)]
             ELSE [b EXCEPT !.successes = Put(b.successes, domain, succ)]
        ELSE b

\* recordSuccess that stamps lastAttempt when it counts a success of a
\* tripped domain.
recordSuccessStamping(b, domain) ==
    LET failCount == Get(b.failures, domain)
        succ == Get(b.successes, domain) + 1
    IN  IF failCount >= maxFailures
        THEN IF succ >= successThreshold
             THEN [failures    |-> Put(b.failures, domain, 0),
                   successes   |-> Put(b.successes, domain, 0),
                   lastAttempt |-> Delete(b.lastAttempt, domain)]
             ELSE [b EXCEPT !.successes = Put(b.successes, domain, succ),
                            !.lastAttempt = Put(b.lastAttempt, domain, 0)]
        ELSE b

\* circuitBreaker.recordSuccess: the breaker afterwards.
recordSuccess(b, domain) ==
    LET failCount == Get(b.failures, domain)
        succ == Get(b.successes, domain) + 1
    IN  IF failCount >= maxFailures
        THEN IF succ >= successThreshold
             THEN [failures    |-> Put(b.failures, domain, 0),
                   successes   |-> Put(b.successes, domain, 0),
                   lastAttempt |-> Delete(b.lastAttempt, domain)]
             ELSE [b EXCEPT !.successes = Put(b.successes, domain, succ)]
        ELSE b

\* getDomain: the host of the URL, "" when url.Parse fails.
getDomain(linkURL) == IF linkURL.wellFormed THEN linkURL.host ELSE ""

\* The request reaches the transport under the context of checkLink, which
\* expires after client.Timeout: a host that has not answered by then makes
\* the request fail.
send(host) ==
    IF Latency(host) >= config.Timeout
    THEN Failure("context deadline exceeded")
    ELSE RoundTrip(host)

\* redirectBehavior of net/http: a 3xx response with a Location is followed.
shouldRedirect(resp) ==
    resp.StatusCode \in {301, 302, 303, 307, 308} /\ resp.Location # ""

\* CheckRedirect of the worker's client (lines 84-89); n is len(via), the
\* requests made so far.
CheckRedirect(n) ==
    IF n >= config.MaxRedirects THEN "Too many redirects" ELSE Nil

\* client.Do: the request is sent, and while the answer is a redirect that
\* CheckRedirect accepts the next request is sent.  via is the number of
\* requests made before this one; hosts are the hosts the transport was
\* asked for, in order.
RECURSIVE Do(_, _)
Do(host, via) ==
    LET resp == send(host) IN
    IF resp.err # Nil
    THEN [StatusCode |-> 0, err |-> resp.err, hosts |-> <<host>>]
    ELSE IF shouldRedirect(resp)
    THEN IF CheckRedirect(via + 1) # Nil
         THEN [StatusCode |-> resp.StatusCode, err |-> CheckRedirect(via + 1),
               hosts |-> <<host>>]
         ELSE LET r == Do(resp.Location, via + 1) IN
              [r EXCEPT !.hosts = <<host>> \o @]
    ELSE [StatusCode |-> resp.StatusCode, err |-> Nil, hosts |-> <<host>>]

\* The hosts the transport is asked for by checkLink(url).
Trail(url) == IF url.wellFormed THEN Do(url.host, 0).hosts ELSE <<>>

\* The mock's calls map after the transport was asked for the hosts hs.
Tally(c, hs) ==
    [h \in DOMAIN c |-> c[h] + Cardinality({k \in 1..Len(hs) : hs[k] = h})]

\* checkLink that treats only 5xx as failures.
checkLinkServerErrors(url) ==
    IF ~url.wellFormed
    THEN [url |-> url, statusCode |-> 0, err |-> "parse error"]
    ELSE LET resp == Do(url.host, 0) IN
         IF resp.err # Nil
         THEN [url |-> url, statusCode |-> 0, err |-> resp.err]
         ELSE IF resp.StatusCode >= 500
         THEN [url |-> url, statusCode |-> resp.StatusCode,
               err |-> HTTPError(resp.StatusCode)]
         ELSE [url |-> url, statusCode |-> resp.StatusCode, err |-> Nil]

\* checkLink: the checkResult of one HEAD request.  http.NewRequestWithContext
\* rejects a malformed URL before anything is sent; otherwise client.Do hands
\* the request to the transport.
checkLink(url) ==
    IF ~url.wellFormed
    THEN [url |-> url, statusCode |-> 0, err |-> "parse error"]
    ELSE LET resp == Do(url.host, 0) IN
         IF resp.err # Nil
         THEN [url |-> url, statusCode |-> 0, err |-> resp.err]
         ELSE IF resp.StatusCode >= 400
         THEN [url |-> url, statusCode |-> resp.StatusCode,
               err |-> HTTPError(resp.StatusCode)]
         ELSE [url |-> url, statusCode |-> resp.StatusCode, err |-> Nil]

\* The LinkError CheckLinks appends for a failing checkResult.
LinkError(result) ==
    [URL |-> result.url, StatusCode |-> result.statusCode, Error |-> result.err]

\* The state when the caller is about to run one of the given sessions under
\* one of the given configs: the first CheckLinks call is at its entry.
Started(sessions, configs) ==
    /\ session \in sessions
    /\ links = session[1]
    /\ config \in configs
    /\ pc = "entry"
    /\ next = 1
    /\ jobs = <<>>
    /\ jobsClosed = FALSE
    /\ results = <<>>
    /\ resultsClosed = FALSE
    /\ wg = 0
    /\ workers = EmptyBag
    /\ cb = newCircuitBreaker
    /\ jpc = "unborn"
    /\ errors = <<>>
    /\ calls = [h \in Servers |-> 0]
    /\ probed = [i \in 1..Len(links) |-> 0]
    /\ skipped = [i \in 1..Len(links) |-> 0]
    /\ elapsed = FALSE
    /\ streak = [h \in Servers |-> 0]
    /\ healed = FALSE
    /\ batch = 1
    /\ log = <<>>

\* The configs of the breaker tests with the given worker counts.
Configs(counts) ==
    [MaxWorkers : counts, MaxRedirects : {TestRedirects}, Timeout : {TestTimeout}]

\* The state when CheckLinks is called once, with one of the given batches
\* and worker counts.
Called(batches, counts) == Started({<<b>> : b \in batches}, Configs(counts))

Init == Called(Batches, WorkerCounts)


\* ------------------------------------------------------- caller goroutine
\* CheckLinks, lines 31-37: the empty batch returns nil at once; otherwise the
\* two channels are made with capacity len(links).
\* Channels made one slot short of the batch.
capacityOneShort(ls) == Len(ls) - 1

\* CheckLinks, lines 35-36: make(chan ..., len(links)), the capacity of jobs
\* and of results.
capacity(ls) == Len(ls)

\* CheckLinks without the len(links) == 0 return.
afterEntryUnchecked(ls) == "pool"

\* CheckLinks, lines 31-33: where the caller goes from the entry.
afterEntry(ls) == IF Len(ls) = 0 THEN "returned" ELSE "pool"

Enter ==
    /\ pc = "entry"
    /\ pc' = afterEntry(links)
    /\ UNCHANGED <<links, config, next, chanVars, wg, workers, cb, jpc,
                   errors, histVars, envVars>>

\* A spawn loop that runs once too often (w <= n): n + 1 goroutines.
PoolOneMore(n) == IF n >= 0 THEN [w \in {Idle} |-> n + 1] ELSE EmptyBag

\* The goroutines started by for w := 0; w < n; w++ { go worker(...) }.
Pool(n) == IF n > 0 THEN [w \in {Idle} |-> n] ELSE EmptyBag

\* The number of goroutines the spawn loop starts.
workerCount == config.MaxWorkers

\* CheckLinks with a breaker that outlives the call: the workers are given
\* the breaker the previous call left.
StartPoolSharedBreaker ==
    /\ pc = "pool"
    /\ IF workerCount < 0
       THEN /\ pc' = "panic"
            /\ UNCHANGED <<wg, workers, cb>>
       ELSE /\ pc' = "send"
            /\ wg' = workerCount
            /\ UNCHANGED cb
            /\ workers' = Pool(workerCount)
    /\ UNCHANGED <<links, config, next, chanVars, jpc, errors, histVars, envVars>>

\* CheckLinks, lines 40-48: wg.Add, newCircuitBreaker, and the loop that
\* starts the workers.  wg.Add panics on a negative counter.  A goroutine that
\* has been started and has not run yet is indistinguishable from one not yet
\* started, so the loop is one step.
StartPool ==
    /\ pc = "pool"
    /\ IF workerCount < 0
       THEN /\ pc' = "panic"
            /\ UNCHANGED <<wg, workers, cb>>
       ELSE /\ pc' = "send"
            /\ wg' = workerCount
            /\ cb' = newCircuitBreaker
            /\ workers' = Pool(workerCount)
    /\ UNCHANGED <<links, config, next, chanVars, jpc, errors, histVars, envVars>>

\* CheckLinks, lines 51-53: jobs <- link.  The channel holds len(links) links,
\* so the send blocks only when it is full.
SendJob ==
    /\ pc = "send"
    /\ next <= Len(links)
    /\ Len(jobs) < capacity(links)
    /\ jobs' = Append(jobs, links[next])
    /\ next' = next + 1
    /\ UNCHANGED <<links, config, pc, jobsClosed, results, resultsClosed, wg, workers, cb, jpc, errors, histVars, envVars>>

\* CheckLinks, line 54: close(jobs).
CloseJobs ==
    /\ pc = "send"
    /\ next > Len(links)
    /\ jobsClosed' = TRUE
    /\ pc' = "join"
    /\ UNCHANGED <<links, config, next, jobs, results, resultsClosed, wg, workers, cb, jpc, errors, histVars, envVars>>

\* CheckLinks, lines 57-60: go func() { wg.Wait(); close(results) }().
StartJoin ==
    /\ pc = "join"
    /\ jpc' = "wait"
    /\ pc' = "collect"
    /\ UNCHANGED <<links, config, next, chanVars, wg, workers, cb, errors, histVars, envVars>>

\* The collect loop without the result.err != nil test.
collectEvery(errs, result) == Append(errs, LinkError(result))

\* A collect loop that puts each new LinkError in front of the slice.
collectInFront(errs, result) ==
    IF result.err # Nil THEN <<LinkError(result)>> \o errs ELSE errs

\* The errors slice after one received result (lines 65-71).
collect(errs, result) ==
    IF result.err # Nil THEN Append(errs, LinkError(result)) ELSE errs

\* CheckLinks, lines 64-72: one iteration of for result := range results.
Collect ==
    /\ pc = "collect"
    /\ Len(results) > 0
    /\ errors' = collect(errors, Head(results))
    /\ results' = Tail(results)
    /\ UNCHANGED <<links, config, pc, next, jobs, jobsClosed, resultsClosed, wg,
                   workers, cb, jpc, histVars, envVars>>

\* CheckLinks, lines 64 and 74: the range loop ends on the closed, drained
\* channel and CheckLinks returns errors.
Return ==
    /\ pc = "collect"
    /\ Len(results) = 0
    /\ resultsClosed
    /\ pc' = "returned"
    /\ UNCHANGED <<links, config, next, chanVars, wg, workers, cb, jpc,
                   errors, histVars, envVars>>

\* A join goroutine that closes results without wg.Wait().
JoinEager ==
    /\ jpc = "wait"
    /\ resultsClosed' = TRUE
    /\ jpc' = "done"
    /\ UNCHANGED <<links, config, pc, next, jobs, jobsClosed, results, wg, workers, cb, errors, histVars, envVars>>

\* --------------------------------------------------------- join goroutine
\* wg.Wait() returns once the counter is zero; close(results) follows.
Join ==
    /\ jpc = "wait"
    /\ wg = 0
    /\ resultsClosed' = TRUE
    /\ jpc' = "done"
    /\ UNCHANGED <<links, config, pc, next, jobs, jobsClosed, results, wg, workers, cb, errors, histVars, envVars>>

\* ------------------------------------------------------- worker goroutines
\* The pool with worker goroutine old replaced by new.
Step(old, new) == (workers (-) SetToBag({old})) (+) SetToBag({new})

\* worker, line 92: for link := range jobs receives the next link.
Recv(w) ==
    /\ w.pc = "recv"
    /\ Len(jobs) > 0
    /\ workers' = Step(w, [pc |-> "gate", link |-> Head(jobs),
                            result |-> NoResult, trial |-> FALSE])
    /\ jobs' = Tail(jobs)
    /\ UNCHANGED <<links, config, pc, next, jobsClosed, results, resultsClosed, wg,
                   cb, jpc, errors, histVars, envVars>>

\* The gate with one breaker for all domains: a link is denied while any
\* domain is open.
admittedByAnyDomain(b, linkURL) ==
    LET domain == getDomain(linkURL) IN
    ~(domain # "" /\ \E d \in DOMAIN b.failures : ~allow(b, d))

\* A gate that serialises the probes of a domain: a link is let through
\* only while no probe of its domain is in flight.
admittedOneAtATime(b, linkURL) ==
    LET domain == getDomain(linkURL) IN
    /\ ~(domain # "" /\ ~allow(b, domain))
    /\ \A v \in BagToSet(workers) :
           v.pc = "probe" => getDomain(v.link) # domain

\* worker, lines 93-98: whether the breaker lets the link through.
admitted(b, linkURL) ==
    LET domain == getDomain(linkURL) IN ~(domain # "" /\ ~allow(b, domain))

\* A gate whose allow stamps lastAttempt anew when it admits a domain that
\* has maxFailures failures on record.
GateRearming(w) ==
    /\ w.pc = "gate"
    /\ IF admitted(cb, w.link)
       THEN /\ workers' = Step(w, [w EXCEPT !.pc = "probe",
                                              !.trial = readable(cb, getDomain(w.link))])
            /\ cb' = IF readable(cb, getDomain(w.link))
                     THEN [cb EXCEPT !.lastAttempt = Put(@, getDomain(w.link), 0)]
                     ELSE cb
            /\ UNCHANGED skipped
       ELSE /\ workers' = Step(w, Idle)
            /\ cb' = cb
            /\ skipped' = [skipped EXCEPT ![w.link.path] = @ + 1]
    /\ UNCHANGED <<links, config, pc, next, chanVars, wg, jpc, errors,
                   calls, probed, elapsed, streak, envVars>>

\* A gate that reports a denied link as failed: the worker sends a result
\* with an error for it.
GateReporting(w) ==
    /\ w.pc = "gate"
    /\ IF admitted(cb, w.link)
       THEN /\ workers' = Step(w, [w EXCEPT !.pc = "probe",
                                              !.trial = readable(cb, getDomain(w.link))])
            /\ UNCHANGED skipped
       ELSE /\ workers' = Step(w, [pc |-> "emit", link |-> w.link,
                                    result |-> [url |-> w.link, statusCode |-> 0,
                                                err |-> "circuit open"],
                                    trial |-> FALSE])
            /\ skipped' = [skipped EXCEPT ![w.link.path] = @ + 1]
    /\ UNCHANGED <<links, config, pc, next, chanVars, wg, cb, jpc, errors,
                   calls, probed, elapsed, streak, envVars>>

\* A gate that stamps lastAttempt when it denies a link: every blocked job
\* starts the open window again.
GateExtending(w) ==
    /\ w.pc = "gate"
    /\ IF admitted(cb, w.link)
       THEN /\ workers' = Step(w, [w EXCEPT !.pc = "probe",
                                              !.trial = readable(cb, getDomain(w.link))])
            /\ cb' = cb
            /\ UNCHANGED skipped
       ELSE /\ workers' = Step(w, Idle)
            /\ cb' = [cb EXCEPT !.lastAttempt = Put(@, getDomain(w.link), 0)]
            /\ skipped' = [skipped EXCEPT ![w.link.path] = @ + 1]
    /\ UNCHANGED <<links, config, pc, next, chanVars, wg, jpc, errors,
                   calls, probed, elapsed, streak, envVars>>

\* worker, lines 93-98: a denied link is dropped (continue).
Gate(w) ==
    /\ w.pc = "gate"
    /\ IF admitted(cb, w.link)
       THEN /\ workers' = Step(w, [w EXCEPT !.pc = "probe",
                                              !.trial = readable(cb, getDomain(w.link))])
            /\ UNCHANGED skipped
       ELSE /\ workers' = Step(w, Idle)
            /\ skipped' = [skipped EXCEPT ![w.link.path] = @ + 1]
    /\ UNCHANGED <<links, config, pc, next, chanVars, wg, cb, jpc, errors,
                   calls, probed, elapsed, streak, envVars>>

\* A report that counts the failure of a link without a domain under "".
recordEveryFailure(b, result) ==
    LET domain == getDomain(result.url) IN
    IF result.err # Nil
    THEN recordFailure(b, domain)
    ELSE IF domain # "" THEN recordSuccess(b, domain) ELSE b

\* worker, lines 103-109: the breaker after the result has been reported.
record(b, result) ==
    LET domain == getDomain(result.url) IN
    IF domain # ""
    THEN IF result.err # Nil
         THEN recordFailure(b, domain)
         ELSE recordSuccess(b, domain)
    ELSE b

\* The run of successes per domain after the worker has reported the result
\* (lines 103-109): a failure ends the run of its domain, a success makes it
\* one longer.
reported(s, result) ==
    LET domain == getDomain(result.url) IN
    IF domain = "" THEN s
    ELSE [s EXCEPT ![domain] =
             IF result.err # Nil THEN 0
             ELSE IF @ < successThreshold THEN @ + 1 ELSE @]

\* worker, lines 100-109: result := checkLink(client, link.URL) completes and
\* its outcome is recorded.  The probe is in flight from the moment the link
\* is admitted; what checkLink computes is local to the worker, so its
\* completion and the report to the breaker are one step.  The transport is
\* called unless the request could not be built.
Probe(w) ==
    /\ w.pc = "probe"
    /\ LET result == checkLink(w.link) IN
        /\ workers' = Step(w, [pc |-> "emit", link |-> w.link,
                                result |-> result, trial |-> FALSE])
        /\ cb' = record(cb, result)
    /\ probed' = [probed EXCEPT ![w.link.path] = @ + 1]
    /\ calls' = Tally(calls, Trail(w.link))
    /\ streak' = reported(streak, checkLink(w.link))
    /\ UNCHANGED <<links, config, pc, next, chanVars, wg, jpc, errors, skipped, elapsed,
                   envVars>>

\* worker, line 111: results <- result.  A send on a closed channel panics; a
\* send on a full one blocks.
Emit(w) ==
    /\ w.pc = "emit"
    /\ IF resultsClosed
       THEN /\ workers' = Step(w, [w EXCEPT !.pc = "panic"])
            /\ UNCHANGED results
       ELSE /\ Len(results) < capacity(links)
            /\ results' = Append(results, w.result)
            /\ workers' = Step(w, Idle)
    /\ UNCHANGED <<links, config, pc, next, jobs, jobsClosed, resultsClosed, wg,
                   cb, jpc, errors, histVars, envVars>>

\* A worker that returns without wg.Done().
doneMissing(n) == n

\* The WaitGroup counter after the worker's deferred wg.Done().
done(n) == n - 1

\* worker, lines 79 and 92: the range loop ends on the closed, drained jobs
\* channel, and the deferred wg.Done() runs as the goroutine returns.
Exit(w) ==
    /\ w.pc = "recv"
    /\ Len(jobs) = 0
    /\ jobsClosed
    /\ wg' = done(wg)
    /\ workers' = Step(w, [w EXCEPT !.pc = "exited"])
    /\ UNCHANGED <<links, config, pc, next, chanVars, cb, jpc, errors, histVars, envVars>>

\* ------------------------------------------------------------------ clock
\* The breaker after one more second: every readable stamp is a second
\* older.  Past retryDelay a stamp's age makes no difference to allow.
aged(b) ==
    [b EXCEPT !.lastAttempt =
        [d \in DOMAIN @ |->
            IF readable(b, d) /\ @[d] < retryDelay THEN @[d] + 1 ELSE @[d]]]

\* A second passes.  It is a step only while some readable stamp is younger
\* than retryDelay; otherwise nothing the program reads has changed.
Tick ==
    /\ \E d \in DOMAIN cb.lastAttempt :
           readable(cb, d) /\ Since(cb, d) < retryDelay
    /\ cb' = aged(cb)
    /\ elapsed' = (elapsed \/ \E d \in DOMAIN cb.lastAttempt :
                                  readable(cb, d) /\ Since(cb', d) >= retryDelay)
    /\ UNCHANGED <<links, config, pc, next, chanVars, wg, workers, jpc, errors,
                   calls, probed, skipped, streak, envVars>>

\* ----------------------------------------------------- caller and transport
\* The caller has its result and calls CheckLinks with the next batch of its
\* session (circuit_breaker_recovery_test.go, lines 83, 107, 129).  The
\* goroutines of the call that returned are gone; the transport keeps
\* counting; what the call left is logged.
CallAgain ==
    /\ pc = "returned"
    /\ batch < Len(session)
    /\ log' = Append(log, [cb |-> cb, errors |-> errors, calls |-> calls])
    /\ batch' = batch + 1
    /\ links' = session[batch + 1]
    /\ pc' = "entry"
    /\ next' = 1
    /\ jobs' = <<>>
    /\ jobsClosed' = FALSE
    /\ results' = <<>>
    /\ resultsClosed' = FALSE
    /\ wg' = 0
    /\ workers' = EmptyBag
    /\ jpc' = "unborn"
    /\ errors' = <<>>
    /\ probed' = [i \in 1..Len(links') |-> 0]
    /\ skipped' = [i \in 1..Len(links') |-> 0]
    /\ streak' = [h \in Servers |-> 0]
    /\ UNCHANGED <<config, cb, calls, elapsed, healed, session>>

\* failUntil passes: failDomain stops failing.  It is a step only when the
\* session has a link to failDomain; otherwise nothing changes.
Heal ==
    /\ ~healed
    /\ \E k \in 1..Len(session) : \E i \in 1..Len(session[k]) :
           session[k][i].host = failDomain
    /\ healed' = TRUE
    /\ UNCHANGED <<links, config, pc, next, chanVars, wg, workers, cb, jpc,
                   errors, histVars, session, batch, log>>

Caller == Enter \/ StartPool \/ SendJob \/ CloseJobs \/ StartJoin \/ Collect \/ Return
Worker(w) == Recv(w) \/ Gate(w) \/ Probe(w) \/ Emit(w) \/ Exit(w)

Next ==
    \/ Caller
    \/ Join
    \/ \E w \in BagToSet(workers) : Recv(w)
    \/ \E w \in BagToSet(workers) : Gate(w)
    \/ \E w \in BagToSet(workers) : Probe(w)
    \/ \E w \in BagToSet(workers) : Emit(w)
    \/ \E w \in BagToSet(workers) : Exit(w)
    \/ Tick

Spec == Init /\ [][Next]_vars

\* The Go scheduler runs every goroutine that can run; a probe ends within
\* config.Timeout.  The clock is under no obligation.
Fairness ==
    /\ WF_vars(Caller)
    /\ WF_vars(Join)
    /\ WF_vars(\E w \in BagToSet(workers) : Worker(w))

FairSpec == Spec /\ Fairness


\* Time keeps advancing: a stamp younger than retryDelay gets older.
ClockFairness == WF_vars(Tick)

SpecClock == Spec /\ ClockFairness

\* One always-failing domain, up to MaxW + 1 workers.
InitRace == Called({Mono("bad.com", MaxLinks)}, 1..(MaxW + 1))
SpecRace == InitRace /\ [][Next]_vars

\* A failing and a healthy domain interleaved.
InitIsolation == Called({Interleaved(MaxInter)}, 1..MaxW)
SpecIsolation == InitIsolation /\ [][Next]_vars

\* CheckLinks under a transport that recovers.
NextRecovery == Next \/ Heal

\* A batch to the domain that recovers: with one worker, long enough for
\* maxFailures failures, successThreshold successes and one more link; with
\* more workers, one link shorter.
InitRecovery ==
    \/ Started({<<Mono(failDomain, MaxRecover)>>}, Configs({1}))
    \/ Started({<<Mono(failDomain, MaxRecover - 1)>>}, Configs(2..MaxW))
SpecRecovery == InitRecovery /\ [][NextRecovery]_vars

\* CheckLinks under a caller that calls again.
NextSession == Next \/ CallAgain

\* The session of TestCheckLinks_CircuitBreaker_HalfOpenFailure: a batch
\* that trips the breaker of the always-failing domain, one probe of the
\* domain, and two more links to it.
Sessions ==
    {<<Mono("bad.com", maxFailures + 1), Mono("bad.com", 1), Mono("bad.com", 2)>>}

InitSession == Started(Sessions, Configs(1..MaxW))
SpecSession == InitSession /\ [][NextSession]_vars

\* The configs of the status scenarios: every redirect limit up to MaxLimit,
\* the short timeout of TestCheckLinksTimeout and the long one of the other
\* tests, in milliseconds.
StatusConfigs ==
    [MaxWorkers : 1..MaxW, MaxRedirects : 0..MaxLimit, Timeout : {100, 5000}]

InitStatus == Started({<<b>> : b \in StatusBatches}, StatusConfigs)
SpecStatus == InitStatus /\ [][Next]_vars


\* The host behind failDomain starts failing again: a transport answers as
\* the network does, and a host that has recovered can go down once more.
Relapse ==
    /\ healed
    /\ \E k \in 1..Len(session) : \E i \in 1..Len(session[k]) :
           session[k][i].host = failDomain
    /\ healed' = FALSE
    /\ UNCHANGED <<links, config, pc, next, chanVars, wg, workers, cb, jpc,
                   errors, histVars, session, batch, log>>

\* CheckLinks under a transport whose host goes down and comes back.
NextFlap == Next \/ Heal \/ Relapse

\* A batch to that host under one worker, long enough to trip the breaker,
\* have a failure interrupt the successes after it, and recover.
InitFlap == Started({<<Mono(failDomain, MaxFlap)>>}, Configs({1}))
SpecFlap == InitFlap /\ [][NextFlap]_vars


\* A batch to the always-failing domain with one link that cannot be parsed,
\* placed right after the links that trip the breaker.
Unparsed ==
    [i \in 1..MaxLinks |->
        IF i = maxFailures + 1 THEN BadURL(i) ELSE URL("bad.com", i)]
InitUnparsed == Called({Unparsed}, 1..MaxW)
SpecUnparsed == InitUnparsed /\ [][Next]_vars


\* A caller that runs CheckLinks twice on the same batch with the same
\* config: a batch that trips the breaker of the always-failing domain, one
\* that stays below maxFailures, and one of servers that answer.
RerunBatches ==
    {Mono("bad.com", maxFailures + 1),
     Mono("bad.com", MaxRerun),
     <<URL("missing.com", 1), URL("good.com", 2), URL("broken.com", 3)>>}
InitRerun == Started({<<b, b>> : b \in RerunBatches}, Configs(1..MaxW))
\* Both calls are over before a second has passed: the goroutines run and
\* the caller calls again, the clock does not move.
NextRerun ==
    \/ Caller
    \/ Join
    \/ \E w \in BagToSet(workers) : Recv(w)
    \/ \E w \in BagToSet(workers) : Gate(w)
    \/ \E w \in BagToSet(workers) : Probe(w)
    \/ \E w \in BagToSet(workers) : Emit(w)
    \/ \E w \in BagToSet(workers) : Exit(w)
    \/ CallAgain
SpecRerun == InitRerun /\ [][NextRerun]_vars

\* ------------------------------------------------------------- vocabulary
N == Len(links)
Returned == pc = "returned"
\* Every worker goroutine that was started has returned.
AllExited == \A w \in BagToSet(workers) : w.pc = "exited"
\* The links of the batch that point at host h.
LinksTo(h) == {i \in 1..N : links[i].wellFormed /\ links[i].host = h}
\* The probes whose checkResult carries an error.
Failing(i) == checkLink(links[i]).err # Nil
\* How many entries of the sequence satisfy the test.
CountIn(seq, Test(_)) == Cardinality({k \in 1..Len(seq) : Test(seq[k])})
\* The sum of f over 1..n.
RECURSIVE SumTo(_, _)
SumTo(f, n) == IF n = 0 THEN 0 ELSE SumTo(f, n - 1) + f[n]
\* The failed probes issued so far.
FailedProbes == SumTo([i \in 1..N |-> IF Failing(i) THEN probed[i] ELSE 0], N)
\* No retryDelay has elapsed since the last failure of a domain that had
\* reached maxFailures.
NoDelayElapsed == ~elapsed
\* The batch is non-empty and every link points at the always-failing domain.
AllBad == N > 0 /\ LinksTo("bad.com") = 1..N
\* The goroutines that can take a step.
Running == Caller \/ Join \/ (\E w \in BagToSet(workers) : Worker(w))

\* ------------------------------------------------------------------ claims

\* C1: for a non-empty batch and MaxWorkers >= 1, under fair scheduling
\* CheckLinks eventually returns, and whenever it has returned every worker
\* goroutine has exited, the WaitGroup is at zero and results is closed.
C1_TerminatesWithoutLeak ==
    /\ (N > 0 /\ config.MaxWorkers >= 1) => <>Returned
    /\ [](Returned /\ N > 0
            => AllExited /\ resultsClosed /\ jobsClosed /\ wg = 0 /\ jpc = "done"
               /\ BagCardinality(workers) = config.MaxWorkers)

C1_Witness ==
    /\ Returned /\ N > 0 /\ config.MaxWorkers = MaxW
    /\ AllExited /\ BagCardinality(workers) = MaxW /\ resultsClosed

\* C2: when CheckLinks returns for a non-empty batch, every link has been
\* probed exactly once or breaker-skipped exactly once.
C2_EveryLinkProcessedOnce ==
    Returned /\ N > 0 => \A i \in 1..N : probed[i] + skipped[i] = 1

\* C3: the returned list holds exactly one LinkError for each probe that was
\* issued and failed, and nothing else: none for a successful probe, none
\* for a breaker-suppressed link; for the always-failing domain, as many
\* LinkErrors as calls made to it.
C3_ErrorsAreTheFailedProbes ==
    Returned =>
        /\ \A i \in 1..N :
             LET Mine(e) == e.URL = links[i] IN
             CountIn(errors, Mine) =
                 (IF Failing(i) THEN probed[i] ELSE 0)
        /\ \A k \in 1..Len(errors) :
             \E i \in 1..N : errors[k] = LinkError(checkLink(links[i]))
        /\ Len(errors) = FailedProbes
        /\ LET ToBad(e) == e.URL.host = "bad.com" IN
           CountIn(errors, ToBad) = calls["bad.com"]

C3_Witness ==
    /\ Returned
    /\ \E i \in 1..N : skipped[i] = 1
    /\ Len(errors) = maxFailures

\* C4: on an empty batch CheckLinks returns nil at once: no worker or join
\* goroutine is started, no channel, WaitGroup or breaker is touched, and no
\* probe is issued, whatever config.MaxWorkers is.
C4_EmptyBatchDoesNothing ==
    N = 0 =>
        /\ pc \in {"entry", "returned"}
        /\ workers = EmptyBag /\ jpc = "unborn" /\ wg = 0
        /\ jobs = <<>> /\ results = <<>> /\ ~jobsClosed /\ ~resultsClosed
        /\ cb = newCircuitBreaker
        /\ errors = <<>>
        /\ \A h \in Hosts : calls[h] = 0

C4_Witness == N = 0 /\ Returned /\ config.MaxWorkers = -1

\* C5: with config.MaxWorkers <= 0 CheckLinks starts DefaultWorkers workers,
\* so a non-empty batch has at least one worker running and every link is
\* probed or breaker-skipped before the call returns.
C5_DefaultWorkers ==
    config.MaxWorkers <= 0 /\ N > 0 /\ pc \notin {"entry", "pool"} =>
        /\ pc # "panic"
        /\ BagCardinality(workers) = DefaultWorkers
        /\ Returned => \A i \in 1..N : probed[i] + skipped[i] = 1

\* C6: CheckLinks never fails as an operation: for every batch and every
\* config.MaxWorkers no goroutine panics, and until the call has returned
\* some goroutine can take a step.
C6_NeverFails ==
    /\ pc # "panic"
    /\ \A w \in BagToSet(workers) : w.pc # "panic"
    /\ Returned \/ ENABLED Running

\* The probes to host h that have been admitted and have not completed.
InFlight(h) ==
    LET flying == {w \in BagToSet(workers) : w.pc = "probe" /\ w.link.host = h}
    IN  BagCardinality([w \in flying |-> workers[w]])

\* C7 as stated: while no retryDelay elapses, an always-failing domain gets
\* at most maxFailures probes plus one, for every worker count.
C7_AtMostOneExtraProbe ==
    NoDelayElapsed => calls["bad.com"] <= maxFailures + 1

\* C7 as amended: while no retryDelay elapses, an always-failing domain gets
\* at most maxFailures probes plus one per worker beyond the first; that is
\* at most one extra only up to two workers.
C7_ExtraProbesBoundedByWorkers ==
    NoDelayElapsed /\ config.MaxWorkers >= 1 =>
        /\ calls["bad.com"] <= maxFailures + (config.MaxWorkers - 1)
        /\ config.MaxWorkers <= 2 => calls["bad.com"] <= maxFailures + 1

C7_Witness ==
    /\ NoDelayElapsed /\ AllBad
    /\ config.MaxWorkers = MaxW + 1
    /\ calls["bad.com"] = maxFailures + MaxW

\* C8: one worker, a batch of N >= maxFailures links to the always-failing
\* domain, no retryDelay elapsing: only the first maxFailures links are
\* probed, every later link is suppressed, and the LinkErrors returned are
\* as many as the probes issued, maxFailures and not N.
C8_SingleWorkerTrips ==
    config.MaxWorkers = 1 /\ AllBad /\ N >= maxFailures /\ NoDelayElapsed =>
        /\ calls["bad.com"] <= maxFailures
        /\ \A i \in 1..N : probed[i] > 0 => i <= maxFailures
        /\ \A i \in 1..N : skipped[i] > 0 => i > maxFailures
        /\ Returned =>
             /\ Len(errors) = calls["bad.com"]
             /\ Len(errors) = maxFailures
             /\ \A i \in (maxFailures + 1)..N : skipped[i] = 1 /\ probed[i] = 0

C8_Witness ==
    /\ Returned /\ config.MaxWorkers = 1 /\ AllBad /\ NoDelayElapsed
    /\ N = MaxLinks
    /\ Len(errors) = maxFailures

\* C9: with W workers and no retryDelay elapsing, the probes to the
\* always-failing domain, completed or in flight, never exceed
\* maxFailures + W - 1; so a batch of at least maxFailures + W links to it
\* never has all its links probed.
C9_RaceBound ==
    NoDelayElapsed /\ config.MaxWorkers >= 1 =>
        /\ Get(cb.failures, "bad.com") + InFlight("bad.com")
               <= maxFailures + config.MaxWorkers - 1
        /\ Returned /\ Cardinality(LinksTo("bad.com")) >= maxFailures + config.MaxWorkers
               => \E i \in LinksTo("bad.com") : probed[i] = 0 /\ skipped[i] = 1

C9_Witness ==
    /\ Returned /\ NoDelayElapsed /\ AllBad
    /\ config.MaxWorkers = 2 /\ N >= maxFailures + 2
    /\ calls["bad.com"] = maxFailures + 1
    /\ Cardinality({i \in 1..N : skipped[i] = 1}) = N - maxFailures - 1

\* C10: in a batch that interleaves an always-failing and a healthy domain,
\* every link of the healthy domain is probed exactly once and none is
\* suppressed, and the healthy domain contributes no LinkError, whatever the
\* breaker state of the failing domain.
C10_HealthyDomainUnaffected ==
    /\ \A i \in LinksTo("good.com") :
         /\ skipped[i] = 0
         /\ probed[i] <= 1
         /\ Returned => probed[i] = 1
    /\ \A k \in 1..Len(errors) : errors[k].URL.host # "good.com"
    /\ calls["good.com"] <= Cardinality(LinksTo("good.com"))
    /\ Returned => calls["good.com"] = Cardinality(LinksTo("good.com"))

C10_Witness ==
    /\ Returned
    /\ calls["good.com"] = MaxInter \div 2
    /\ \E i \in LinksTo("bad.com") : skipped[i] = 1
    /\ ~allow(cb, "bad.com")

\* What the breaker holds for one domain: its three map entries.
Entry(b, d) ==
    <<Get(b.failures, d), Get(b.successes, d),
      IF d \in DOMAIN b.lastAttempt THEN b.lastAttempt[d] ELSE -1>>

\* C11: the healthy domain is admitted in every state, however many failures
\* the failing domain has recorded, and a step in which a worker reports a
\* probe of one domain to the breaker (recordFailure or recordSuccess)
\* leaves the entries of every other domain as they were.
C11_CrossDomainIsolation ==
    /\ [](allow(cb, "good.com"))
    /\ [][\A w \in BagToSet(workers) :
            Probe(w) => \A d \in Hosts \ {getDomain(w.link)} :
                            Entry(cb', d) = Entry(cb, d)]_vars

C11_Witness ==
    /\ ~allow(cb, "bad.com")
    /\ allow(cb, "good.com")
    /\ \E w \in BagToSet(workers) : w.pc = "gate" /\ w.link.host = "good.com"
    /\ calls["good.com"] > 0

\* The trial probes of domain d in flight: admitted in Half-Open and not yet
\* reported to the breaker.
TrialsInFlight(d) ==
    LET T == {w \in BagToSet(workers) :
                 w.pc = "probe" /\ w.trial /\ getDomain(w.link) = d}
    IN  BagCardinality([w \in T |-> workers[w]])

\* A worker's probe of a link whose domain d had maxFailures failures on
\* record completes with an error and is reported to the breaker.
TrialFails(w, d) ==
    /\ w.pc = "probe"
    /\ w.trial
    /\ getDomain(w.link) = d
    /\ checkLink(w.link).err # Nil
    /\ Probe(w)

\* C12 as stated: for any number of workers, at most one trial probe of a
\* tripped domain is in flight at a time (no second one is admitted between
\* the trial's allow and its recordFailure), and when the trial fails the
\* breaker blocks the domain again.
C12_SingleTrialProbe ==
    /\ [](\A d \in Hosts : TrialsInFlight(d) <= 1)
    /\ [][\A w \in BagToSet(workers) : \A d \in Hosts :
            TrialFails(w, d) => ~allow(cb', d)]_vars

\* C12 as amended: a link of a tripped domain is admitted only once
\* retryDelay has passed since the domain's lastAttempt; the breaker blocks
\* the domain again as soon as one trial fails; with one worker a single
\* trial is in flight, with W workers up to W trials can be.
C12_TrialProbesBoundedByWorkers ==
    /\ [](\A d \in Hosts :
            /\ TrialsInFlight(d) <=
                   IF config.MaxWorkers > 0 THEN config.MaxWorkers ELSE 0
            /\ config.MaxWorkers = 1 => TrialsInFlight(d) <= 1)
    /\ [][\A w \in BagToSet(workers) :
            LET d == getDomain(w.link) IN
            Gate(w) /\ admitted(cb, w.link) /\ readable(cb, d)
                => Since(cb, d) >= retryDelay]_vars
    /\ [][\A w \in BagToSet(workers) : \A d \in Hosts :
            TrialFails(w, d) => ~allow(cb', d)]_vars

C12_Witness ==
    /\ config.MaxWorkers = 2
    /\ TrialsInFlight("bad.com") = 2
    /\ Get(cb.failures, "bad.com") = maxFailures

\* A worker reports a failed probe of domain d to the breaker.
FailureRecorded(w, d) ==
    /\ w.pc = "probe"
    /\ getDomain(w.link) = d
    /\ checkLink(w.link).err # Nil
    /\ Probe(w)

\* C13: a failure recorded for a domain that then has maxFailures or more
\* failures stamps lastAttempt anew, and from the stamp on allow denies the
\* domain for as long as less than retryDelay has passed and admits it again
\* once retryDelay has passed.
C13_FailedTrialReopens ==
    /\ [](\A d \in Servers : readable(cb, d) =>
            /\ d \in DOMAIN cb.lastAttempt
            /\ allow(cb, d) <=> Since(cb, d) >= retryDelay)
    /\ [][\A w \in BagToSet(workers) : \A d \in Servers :
            FailureRecorded(w, d) /\ readable(cb', d) =>
                /\ d \in DOMAIN cb'.lastAttempt
                /\ Since(cb', d) = 0
                /\ ~allow(cb', d)]_vars

C13_Witness ==
    /\ config.MaxWorkers = 1
    /\ Get(cb.failures, failDomain) = maxFailures + 1
    /\ Get(cb.successes, failDomain) = 0
    /\ Since(cb, failDomain) = 0
    /\ ~allow(cb, failDomain)
    /\ elapsed

\* The logical breaker states of a domain as the specification derives them
\* from failureCount, lastAttemptTime and the clock.
StateClosed(b, d) == Get(b.failures, d) < maxFailures
StateOpen(b, d) ==
    /\ Get(b.failures, d) >= maxFailures
    /\ d \in DOMAIN b.lastAttempt
    /\ Since(b, d) < retryDelay
StateHalfOpen(b, d) ==
    /\ Get(b.failures, d) >= maxFailures
    /\ d \notin DOMAIN b.lastAttempt \/ Since(b, d) >= retryDelay
\* The states that hold of a domain.
StatesOf(b, d) ==
    {s \in {"Closed", "Open", "HalfOpen"} :
        \/ s = "Closed" /\ StateClosed(b, d)
        \/ s = "Open" /\ StateOpen(b, d)
        \/ s = "HalfOpen" /\ StateHalfOpen(b, d)}

\* C20: at every instant exactly one of Closed, Open and Half-Open holds of
\* every domain, and allow denies the domain exactly when it is Open.
C20_StateDecidesAllow ==
    \A d \in Hosts :
        /\ Cardinality(StatesOf(cb, d)) = 1
        /\ ~allow(cb, d) <=> StateOpen(cb, d)

C20_Witness ==
    /\ StatesOf(cb, "bad.com") = {"HalfOpen"}
    /\ allow(cb, "bad.com")
    /\ \E w \in BagToSet(workers) : w.pc = "gate" /\ w.link.host = "bad.com"

\* A worker reports a successful probe of domain d to the breaker.
SuccessRecorded(w, d) ==
    /\ w.pc = "probe"
    /\ getDomain(w.link) = d
    /\ checkLink(w.link).err = Nil
    /\ Probe(w)

\* C14: for a tripped domain, each recorded success short of
\* successThreshold only counts; the success that completes successThreshold
\* successes with no failure in between leaves failures 0, successes 0 and
\* no lastAttempt, so the domain is Closed; and a domain with fewer than
\* maxFailures failures on record is admitted whatever the time.
C14_RecoveryResets ==
    /\ [][\A w \in BagToSet(workers) :
            LET d == getDomain(w.link) IN
            readable(cb, d) /\ SuccessRecorded(w, d) =>
                IF Get(cb.successes, d) + 1 >= successThreshold
                THEN /\ Entry(cb', d) = <<0, 0, -1>>
                     /\ StateClosed(cb', d)
                     /\ allow(cb', d)
                ELSE Entry(cb', d) =
                        <<Get(cb.failures, d), Get(cb.successes, d) + 1,
                          Entry(cb, d)[3]>>]_vars
    /\ [](\A d \in Servers :
            /\ Get(cb.successes, d) < successThreshold
            /\ Get(cb.failures, d) < maxFailures => allow(cb, d))

C14_Witness ==
    /\ Returned
    /\ config.MaxWorkers = 1
    /\ calls[failDomain] = maxFailures + successThreshold
    /\ Len(errors) = maxFailures
    /\ Entry(cb, failDomain) = <<0, 0, -1>>
    /\ probed[maxFailures + successThreshold] = 1

\* The current call has made its breaker and started its workers.
Pooled == pc \in {"send", "join", "collect", "returned"} /\ N > 0
\* The failed probes of the current call to host h.
FailedProbesTo(h) ==
    SumTo([i \in 1..N |-> IF i \in LinksTo(h) /\ Failing(i) THEN probed[i] ELSE 0], N)

C16_ThirdBatchBlocked ==
    /\ batch = 3
    /\ readable(log[1].cb, "bad.com")
    /\ Len(log[2].errors) = 1
    /\ log[2].calls["bad.com"] = log[1].calls["bad.com"] + 1
    /\ elapsed
    => calls["bad.com"] = log[2].calls["bad.com"]

\* The entries of the returned list that are about link i.
ErrorsFor(i) == {k \in 1..Len(errors) : errors[k].URL = links[i]}
\* The server of link i answers the request itself, in time and without
\* redirecting; Status(i) is the status code of its answer.
Answered(i) ==
    /\ links[i].wellFormed
    /\ Latency(links[i].host) < config.Timeout
    /\ RoundTrip(links[i].host).err = Nil
    /\ ~shouldRedirect(RoundTrip(links[i].host))
Status(i) == RoundTrip(links[i].host).StatusCode

\* C17: when CheckLinks has returned, a probed link whose server answered
\* with a status of 400 or more has exactly one LinkError, carrying that
\* status, and one whose server answered with a status below 400 has none.
C17_StatusClassifiesProbe ==
    Returned =>
        \A i \in 1..N : Answered(i) /\ probed[i] = 1 =>
            IF Status(i) >= 400
            THEN /\ Cardinality(ErrorsFor(i)) = 1
                 /\ \A k \in ErrorsFor(i) : errors[k].StatusCode = Status(i)
            ELSE ErrorsFor(i) = {}

C17_Witness ==
    /\ Returned
    /\ N = 2
    /\ links[1].host = "moved.com"
    /\ links[2].host = "broken.com"
    /\ Len(errors) = 1
    /\ errors[1].StatusCode = 500


\* The probe of the link fails below HTTP: the request cannot be built, the
\* transport reports an error, the answer does not come within the timeout,
\* or CheckRedirect stops the chain.
TransportFails(url) == ~url.wellFormed \/ Do(url.host, 0).err # Nil
\* Worker w completes a probe that fails below HTTP.
TransportFailure(w) ==
    /\ w.pc = "probe"
    /\ TransportFails(w.link)
    /\ Probe(w)
\* Every probed link whose probe fails below HTTP has exactly one LinkError,
\* with StatusCode 0.
OneZeroStatusError ==
    \A i \in 1..N : probed[i] = 1 /\ TransportFails(links[i]) =>
        /\ Cardinality(ErrorsFor(i)) = 1
        /\ \A k \in ErrorsFor(i) : errors[k].StatusCode = 0
\* The completion of the probe of w leaves alone the breaker entries of the
\* other domains, the probes the other workers have in flight, and the
\* results already reported.
OthersUntouched(w) ==
    /\ \A d \in Servers \ {getDomain(w.link)} : Entry(cb', d) = Entry(cb, d)
    /\ (workers (-) SetToBag({w})) \sqsubseteq workers'
    /\ results' = results
    /\ errors' = errors

\* C18: a probe that fails below HTTP yields exactly one LinkError with
\* StatusCode 0 for its link, raises the failure count of the breaker, and
\* leaves the other links' probes and entries as they were.
C18_TransportFailureCounted ==
    /\ [](Returned => OneZeroStatusError)
    /\ [][\A w \in BagToSet(workers) : TransportFailure(w) =>
            /\ \E d \in DOMAIN cb'.failures :
                   cb'.failures[d] = Get(cb.failures, d) + 1
            /\ OthersUntouched(w)]_vars

\* C18 (amended): a probe that fails below HTTP yields exactly one LinkError
\* with StatusCode 0 for its link and leaves the other links' probes and
\* entries as they were; it raises the failure count of the link's domain
\* when the URL has a host, and leaves the breaker as it was when the URL
\* cannot be parsed.
C18_TransportFailureCountedPerDomain ==
    /\ [](Returned => OneZeroStatusError)
    /\ [][\A w \in BagToSet(workers) : TransportFailure(w) =>
            /\ LET d == getDomain(w.link) IN
               IF d # ""
               THEN Get(cb'.failures, d) = Get(cb.failures, d) + 1
               ELSE cb' = cb
            /\ OthersUntouched(w)]_vars

C18_Witness ==
    /\ Returned
    /\ config.Timeout = TestTimeout
    /\ N = 2
    /\ ~links[1].wellFormed
    /\ links[2].host = "slow.com"
    /\ Len(errors) = 2
    /\ \A k \in 1..2 : errors[k].StatusCode = 0
    /\ Get(cb.failures, "slow.com") = 1
    /\ DOMAIN cb.failures = {"slow.com"}


\* The number of redirects between a host and the final response of its
\* chain, as the servers answer.
RECURSIVE Hops(_)
Hops(h) ==
    IF shouldRedirect(RoundTrip(h)) THEN 1 + Hops(RoundTrip(h).Location) ELSE 0
\* The hosts that start a redirect chain.
Redirecting == {h \in Servers : Hops(h) > 0}

\* C19: when CheckLinks has returned, a probed link whose chain needs at most
\* MaxRedirects redirects has no LinkError (its chain ends at a 200), and
\* one whose chain needs more has a LinkError with StatusCode 0.
C19_FollowsUpToMaxRedirects ==
    Returned =>
        \A i \in 1..N :
            /\ probed[i] = 1
            /\ links[i].wellFormed
            /\ links[i].host \in Redirecting
            => IF Hops(links[i].host) <= config.MaxRedirects
               THEN ErrorsFor(i) = {}
               ELSE /\ ErrorsFor(i) # {}
                    /\ \A k \in ErrorsFor(i) : errors[k].StatusCode = 0


\* Worker w, holding a link it has received, asks the breaker and moves on:
\* to the probe when admitted, back to the jobs channel when denied.
Gated(w) ==
    /\ w.pc = "gate"
    /\ workers' # workers
    /\ (workers (-) SetToBag({w})) \sqsubseteq workers'

\* C21: the step in which a worker asks allow leaves the breaker as it was:
\* no counter or stamp of any domain changes and no entry is created, for a
\* domain on record and for one never seen; a domain admitted with
\* maxFailures failures on record is still admitted afterwards.
C21_AllowIsPureRead ==
    [][\A w \in BagToSet(workers) : Gated(w) =>
          /\ cb' = cb
          /\ \A d \in Servers : allow(cb', d) <=> allow(cb, d)]_vars

C21_Witness ==
    \E w \in BagToSet(workers) :
        /\ w.pc = "probe"
        /\ w.trial
        /\ readable(cb, getDomain(w.link))
        /\ Since(cb, getDomain(w.link)) >= retryDelay
        /\ cb.successes[getDomain(w.link)] = 0


\* C22: whatever the state of the domain, the step that reports a failed
\* probe makes failures[domain] one larger, sets successes[domain] to 0 and
\* stamps lastAttempt[domain] with the time of the report.
C22_RecordFailureEffect ==
    [][\A w \in BagToSet(workers) : \A d \in Servers :
          FailureRecorded(w, d) =>
              /\ Get(cb'.failures, d) = Get(cb.failures, d) + 1
              /\ Get(cb'.successes, d) = 0
              /\ d \in DOMAIN cb'.lastAttempt
              /\ Since(cb', d) = 0]_vars

\* Links 1..maxFailures failed, the next succeeded as a trial and the one
\* after it failed: the failure found successes at 1 and a stamp
\* retryDelay old.
C22_Witness ==
    /\ Len(errors) = maxFailures + 1
    /\ \A k \in 1..maxFailures : errors[k].URL.path = k
    /\ errors[maxFailures + 1].URL.path = maxFailures + 2
    /\ probed[maxFailures + 1] = 1
    /\ cb.failures[failDomain] = maxFailures + 1
    /\ cb.successes[failDomain] = 0
    /\ Since(cb, failDomain) = 0

\* C23: the step that reports a successful probe of a domain with fewer than
\* maxFailures failures leaves the breaker as it was: no counter or stamp
\* changes and no entry is created.
C23_ClosedSuccessIsNoOp ==
    [][\A w \in BagToSet(workers) : \A d \in Servers :
          SuccessRecorded(w, d) /\ ~readable(cb, d) => cb' = cb]_vars

C23_Witness ==
    /\ streak[failDomain] = 2
    /\ Get(cb.failures, failDomain) = 2
    /\ cb.successes[failDomain] = 0
    /\ \A w \in BagToSet(workers) : w.pc # "probe"

\* C24: the step that reports a failed probe sets successes[domain] to 0,
\* and a step that takes a tripped domain back to fewer than maxFailures
\* failures reports a success that is at least the successThreshold-th in
\* a row for the domain.
C24_RecoveryNeedsConsecutiveSuccesses ==
    [][\A w \in BagToSet(workers) : \A d \in Servers :
          /\ FailureRecorded(w, d) => Get(cb'.successes, d) = 0
          /\ SuccessRecorded(w, d) /\ readable(cb, d) /\ ~readable(cb', d)
                 => streak'[d] >= successThreshold]_vars

\* The batch of MaxFlap links has returned: links 1..maxFailures failed,
\* the next successThreshold - 1 succeeded and the one after them failed:
\* the successes count for nothing and the domain is still tripped.
C24_Witness ==
    /\ Returned
    /\ N = maxFailures + successThreshold
    /\ Len(errors) = maxFailures + 1
    /\ errors[maxFailures + 1].URL.path = maxFailures + successThreshold
    /\ \A i \in 1..N : probed[i] = 1
    /\ Get(cb.failures, failDomain) = maxFailures + 1
    /\ Get(cb.successes, failDomain) = 0
    /\ streak[failDomain] = 0
    /\ ~allow(cb, failDomain)


\* Worker w asks the breaker about a link that the breaker denies.
Denied(w) == Gated(w) /\ ~admitted(cb, w.link)

\* C25: the step in which a worker is denied a link issues no probe, reports
\* nothing to the breaker, sends nothing on results, and leaves the worker
\* at the jobs channel for the next link; when CheckLinks has returned, a
\* denied link was never probed and has no LinkError.
C25_DeniedJobDropped ==
    /\ [][\A w \in BagToSet(workers) : Denied(w) =>
            /\ workers' = Step(w, Idle)
            /\ cb' = cb
            /\ results' = results
            /\ errors' = errors
            /\ probed' = probed
            /\ calls' = calls]_vars
    /\ [](Returned => \A i \in 1..N : skipped[i] > 0 =>
            /\ probed[i] = 0
            /\ ErrorsFor(i) = {})

C25_Witness ==
    /\ Returned
    /\ config.MaxWorkers = 1
    /\ N = MaxFlap
    /\ \A i \in 1..N : skipped[i] = IF i > maxFailures THEN 1 ELSE 0
    /\ Len(errors) = maxFailures
    /\ calls[failDomain] = maxFailures
    /\ Get(cb.failures, failDomain) = maxFailures


\* C26: results is closed in one step only, taken by the join goroutine
\* when all config.MaxWorkers workers have exited, and the join goroutine
\* does nothing afterwards; no worker holds a result to send, or has
\* panicked on a send, once results is closed; jobs is closed in one step
\* only, taken by the caller when all N links are enqueued, and the caller
\* sends nothing afterwards.
C26_ChannelsClosedOnce ==
    /\ [][resultsClosed' # resultsClosed =>
            /\ ~resultsClosed
            /\ jpc = "wait" /\ jpc' = "done"
            /\ AllExited
            /\ BagCardinality(workers) = config.MaxWorkers]_vars
    /\ [][jpc = "done" => jpc' = "done" /\ resultsClosed']_vars
    /\ [](\A w \in BagToSet(workers) :
            /\ w.pc # "panic"
            /\ resultsClosed => w.pc = "exited")
    /\ [][jobsClosed' # jobsClosed =>
            /\ ~jobsClosed
            /\ pc = "send" /\ pc' = "join"
            /\ next = N + 1]_vars
    /\ [][jobsClosed => jobsClosed' /\ next' = next /\ Len(jobs') <= Len(jobs)]_vars

C26_Witness ==
    /\ resultsClosed
    /\ jobsClosed
    /\ pc = "collect"
    /\ Len(results) = N
    /\ N = MaxLinks
    /\ config.MaxWorkers = MaxW
    /\ AllExited


\* The workers that hold a result they have not sent yet.
Emitting == {w \in BagToSet(workers) : w.pc = "emit"}
\* How many goroutines of the pool hold a result to send.
EmitPending == BagCardinality([w \in Emitting |-> workers[w]])

\* C27: no send blocks.  jobs never holds more than N links, and whenever
\* the caller has a link left to enqueue jobs has room for it, whether or
\* not any worker has received anything; results never holds more than N
\* results, as many results as links are sent at most, and whenever a worker
\* holds a result to send results has room for it, whether or not the
\* caller has started to collect.
C27_NoSendBlocks ==
    /\ Len(jobs) <= N
    /\ Len(jobs) <= capacity(links)
    /\ pc = "send" /\ next <= N => Len(jobs) < capacity(links)
    /\ Len(results) <= capacity(links)
    /\ Len(results) + EmitPending <= N
    /\ SumTo(probed, N) <= N
    /\ \A w \in Emitting : ~resultsClosed /\ Len(results) < capacity(links)

\* Every result of the batch is in the channel and the caller has not yet
\* started to collect.
C27_Witness ==
    /\ pc = "join"
    /\ N = MaxLinks
    /\ Len(results) = N
    /\ config.MaxWorkers = MaxW
    /\ jobs = <<>>


\* The probes in flight: the workers inside checkLink.
ProbesInFlight ==
    LET flying == {w \in BagToSet(workers) : w.pc = "probe"}
    IN  BagCardinality([w \in flying |-> workers[w]])

\* C28: in every state of a CheckLinks call the probes in flight are at most
\* config.MaxWorkers (none when it is not positive): once the pool is
\* started it has exactly config.MaxWorkers goroutines, and each of them is
\* in at most one probe.
C28_AtMostWProbesInFlight ==
    /\ ProbesInFlight <= BagCardinality(workers)
    /\ ProbesInFlight <= (IF config.MaxWorkers > 0 THEN config.MaxWorkers ELSE 0)
    /\ Pooled => BagCardinality(workers) = config.MaxWorkers
    /\ ~Pooled /\ ~Returned => workers = EmptyBag

C28_Witness ==
    /\ config.MaxWorkers = MaxW
    /\ ProbesInFlight = MaxW
    /\ Len(jobs) > 0


\* C29: allow, probe and record are separate steps.  A worker whose domain
\* allow admits goes on to its probe whatever probes of the domain other
\* workers have in flight and have not reported; so with two workers both can
\* be probing a domain that has maxFailures - 1 failures on record (or one
\* that is half-open) before either reports.
C29_AdmissionIgnoresProbesInFlight ==
    [][\A w \in BagToSet(workers) :
          LET d == getDomain(w.link) IN
          Gated(w) /\ d # "" /\ allow(cb, d) =>
              workers' = Step(w, [w EXCEPT !.pc = "probe",
                                           !.trial = readable(cb, d)])]_vars

\* Two workers are probing bad.com, both admitted while it had
\* maxFailures - 1 failures on record, and neither has reported.
C29_Witness ==
    /\ config.MaxWorkers >= 2
    /\ Get(cb.failures, "bad.com") = maxFailures - 1
    /\ InFlight("bad.com") = 2
    /\ TrialsInFlight("bad.com") = 0
    /\ NoDelayElapsed


\* The link has no domain: getDomain gives "" for it.
NoDomain(linkURL) == getDomain(linkURL) = ""

\* C30: a link without a domain is let through by the gate in every state of
\* the breaker, its probe is made and its result is sent, and the report of
\* its outcome leaves the breaker as it was; no map of the breaker ever has
\* an entry under "".  When CheckLinks has returned, such a link was probed
\* once, never denied, and has its one LinkError.
C30_EmptyDomainBypassesBreaker ==
    /\ []("" \notin DOMAIN cb.failures \cup DOMAIN cb.successes
                        \cup DOMAIN cb.lastAttempt)
    /\ [][\A w \in BagToSet(workers) : Gated(w) /\ NoDomain(w.link) =>
            /\ \E v \in BagToSet(workers') : v.pc = "probe" /\ v.link = w.link
            /\ skipped' = skipped]_vars
    /\ [][\A w \in BagToSet(workers) :
            w.pc = "probe" /\ NoDomain(w.link) /\ Probe(w) =>
                /\ cb' = cb
                /\ \E v \in BagToSet(workers') :
                       v.pc = "emit" /\ v.link = w.link]_vars
    /\ [](Returned => \A i \in 1..N : NoDomain(links[i]) =>
            /\ probed[i] = 1
            /\ skipped[i] = 0
            /\ Cardinality(ErrorsFor(i)) = 1)

\* One worker: the unparsable link came up while bad.com was blocked and was
\* probed; the link to bad.com after it was denied.
C30_Witness ==
    /\ Returned
    /\ config.MaxWorkers = 1
    /\ NoDelayElapsed
    /\ NoDomain(links[maxFailures + 1])
    /\ probed[maxFailures + 1] = 1
    /\ skipped[maxFailures + 2] = 1
    /\ Len(errors) = maxFailures + 1
    /\ DOMAIN cb.failures = {"bad.com"}
    /\ cb.failures["bad.com"] = maxFailures


\* A step reports a failed probe of domain d.
SomeFailureRecorded(d) ==
    \E w \in BagToSet(workers) : FailureRecorded(w, d)
\* A step reports the success that completes the recovery of domain d.
RecoveryReset(d) ==
    /\ readable(cb, d)
    /\ Get(cb.successes, d) + 1 >= successThreshold
    /\ \E w \in BagToSet(workers) : SuccessRecorded(w, d)

\* C31: an entry for a domain appears in a map of the breaker only in a step
\* that reports a failure of the domain, so a domain that was only asked
\* about and whose probes only succeeded has none; an entry of failures or
\* successes is never removed; an entry of lastAttempt is removed only by
\* the success that completes the recovery of the domain.
C31_EntriesLazyAndKept ==
    [][\A d \in Servers \cup {""} :
          /\ \/ d \in DOMAIN cb'.failures \ DOMAIN cb.failures
             \/ d \in DOMAIN cb'.successes \ DOMAIN cb.successes
             \/ d \in DOMAIN cb'.lastAttempt \ DOMAIN cb.lastAttempt
             => SomeFailureRecorded(d)
          /\ d \in DOMAIN cb.failures => d \in DOMAIN cb'.failures
          /\ d \in DOMAIN cb.successes => d \in DOMAIN cb'.successes
          /\ d \in DOMAIN cb.lastAttempt \ DOMAIN cb'.lastAttempt
             => RecoveryReset(d)]_vars

\* The domain has recovered: its failures and successes entries are still
\* there, at 0, and its lastAttempt entry is gone.
C31_Witness ==
    /\ failDomain \in DOMAIN cb.failures
    /\ cb.failures[failDomain] = 0
    /\ failDomain \in DOMAIN cb.successes
    /\ cb.successes[failDomain] = 0
    /\ failDomain \notin DOMAIN cb.lastAttempt
    /\ pc = "collect"


\* The LinkErrors of the failing results in a sequence of results, in order.
RECURSIVE ErrorsOf(_)
ErrorsOf(rs) ==
    IF rs = <<>> THEN <<>>
    ELSE (IF Head(rs).err # Nil THEN <<LinkError(Head(rs))>> ELSE <<>>)
             \o ErrorsOf(Tail(rs))
\* The sequence lists its links in the order of the batch.
InInputOrder(errs) ==
    \A j, k \in 1..Len(errs) : j < k => errs[j].URL.path < errs[k].URL.path

\* C32: the returned slice lists the failing results in the order in which
\* they were sent on results: a worker's send puts its result behind those
\* sent before, and each step of the collect loop takes the oldest result
\* and, if it failed, puts its LinkError last.  With one worker that order is
\* the order of the batch.
C32_ErrorsInCompletionOrder ==
    /\ [][Len(results') > Len(results) =>
            \E w \in BagToSet(workers) :
                w.pc = "emit" /\ results' = Append(results, w.result)]_vars
    /\ [][errors' \o ErrorsOf(results') = errors \o ErrorsOf(results)
            \/ \E w \in BagToSet(workers) :
                   /\ w.pc = "emit"
                   /\ errors' \o ErrorsOf(results')
                          = (errors \o ErrorsOf(results)) \o ErrorsOf(<<w.result>>)]_vars
    /\ [](config.MaxWorkers = 1 =>
            InInputOrder(errors \o ErrorsOf(results)))

\* Two workers: the returned slice has a later link of the batch in front
\* of an earlier one.
C32_Witness ==
    /\ Returned
    /\ config.MaxWorkers = 2
    /\ Len(errors) >= 2
    /\ errors[1].URL.path > errors[2].URL.path


\* What a returned slice says about the batch: the links it reports as
\* failed, each with its status code.  A link that is not in it counts as
\* accessible for the caller.
Reported(errs) ==
    {<<errs[k].URL, errs[k].StatusCode>> : k \in 1..Len(errs)}
\* The second of two calls on the same batch has returned.
BothReturned == Returned /\ batch = 2 /\ session[1] = session[2]
\* The status code the transport gives link i: 0 when the probe fails below
\* HTTP, the code of the server's answer otherwise.
Expected(i) == IF TransportFails(links[i]) THEN 0 ELSE Status(i)
\* The links of the batch that fail whenever they are probed, by domain.
FailingTo(d) ==
    {i \in 1..N : getDomain(links[i]) = d
                    /\ (Expected(i) = 0 \/ Expected(i) >= 400)}
\* No domain of the batch can reach maxFailures failures.
NeverTrips == \A d \in Servers : Cardinality(FailingTo(d)) < maxFailures

\* C33 as stated: two calls on the same batch with the same config, under a
\* transport that answers each URL the same way, report the same links as
\* failed with the same status codes, whatever the interleaving of the
\* workers.
C33_SameOutcomeEveryRun ==
    BothReturned => Reported(errors) = Reported(log[1].errors)

\* C33 as amended: under such a transport every probe of a link is
\* classified the same way in every run: whatever either call reports about
\* a link is the status code the transport gives it, and a link whose probe
\* succeeds is reported by neither.  When no domain of the batch can reach
\* maxFailures failures both calls report the same, every failing link;
\* otherwise which links of the tripped domain are probed, and so reported,
\* depends on the interleaving.
C33_SameClassificationEveryRun ==
    BothReturned =>
        /\ \A e \in Reported(errors) \cup Reported(log[1].errors) :
               \E i \in 1..N :
                   /\ e = <<links[i], Expected(i)>>
                   /\ i \in FailingTo(getDomain(links[i]))
        /\ NeverTrips =>
               /\ Reported(errors) = Reported(log[1].errors)
               /\ Reported(errors) =
                      {<<links[i], Expected(i)>> :
                           i \in UNION {FailingTo(d) : d \in Servers}}

\* Two workers, two calls on the batch that trips bad.com: the first call
\* reported maxFailures + 1 links, the second maxFailures.
C33_Witness ==
    /\ BothReturned
    /\ config.MaxWorkers = 2
    /\ Len(log[1].errors) = maxFailures + 1
    /\ Len(errors) = maxFailures


\* The probes of host h that have completed and been reported.
Completed(h) ==
    SumTo([i \in 1..N |-> IF i \in LinksTo(h) THEN probed[i] ELSE 0], N)

\* C34: every report to the breaker is one step, so none is lost: for the
\* always-failing domain, which never recovers, failures[domain] is in
\* every state the number of probes of the domain that have completed,
\* for every number of workers, and each report raises it by exactly one.
C34_NoLostUpdate ==
    /\ [](Pooled => Get(cb.failures, "bad.com") = Completed("bad.com"))
    /\ [][\A w \in BagToSet(workers) :
            FailureRecorded(w, "bad.com") =>
                Get(cb'.failures, "bad.com") = Get(cb.failures, "bad.com") + 1]_vars

\* MaxW workers: every link of the batch was probed, some of them at
\* the same time, and every failure is counted.
C34_Witness ==
    /\ config.MaxWorkers = MaxW
    /\ N = MaxLinks
    /\ Get(cb.failures, "bad.com") = MaxLinks
    /\ InFlight("bad.com") = 0
    /\ \A i \in 1..N : probed[i] = 1


\* C35: in every state of the breaker a domain with failures on record has
\* a lastAttempt stamp; so a tripped domain always has one, and allow never
\* admits a tripped domain for want of a stamp.
C35_FailuresImplyStamp ==
    \A d \in Servers :
        /\ Get(cb.failures, d) > 0 => d \in DOMAIN cb.lastAttempt
        /\ readable(cb, d) /\ allow(cb, d) =>
               d \in DOMAIN cb.lastAttempt /\ Since(cb, d) >= retryDelay

\* The tripped domain has one success counted and still has its stamp.
C35_Witness ==
    /\ readable(cb, failDomain)
    /\ Get(cb.successes, failDomain) = 1
    /\ failDomain \in DOMAIN cb.lastAttempt
    /\ allow(cb, failDomain)

\* C36: in every state of the breaker, for every domain, successes is at
\* least 0 and below successThreshold, and it is above 0 only for a domain
\* with maxFailures or more failures on record.
C36_SuccessesBounded ==
    \A d \in Servers :
        /\ 0 <= Get(cb.successes, d)
        /\ Get(cb.successes, d) < successThreshold
        /\ Get(cb.successes, d) > 0 => Get(cb.failures, d) >= maxFailures

\* The tripped domain is one success short of its reset.
C36_Witness ==
    /\ Get(cb.successes, failDomain) = successThreshold - 1
    /\ Get(cb.failures, failDomain) = maxFailures + 1
    /\ streak[failDomain] = successThreshold - 1

\* C37: below maxFailures a step never lowers failures[domain]: a reported
\* success leaves it as it is, whatever came before.  So the failure that
\* brings the count to maxFailures trips the domain, also when successes
\* of the domain were reported between the failures.
C37_FailuresAccumulate ==
    /\ [][\A d \in Servers : ~readable(cb, d) =>
            Get(cb'.failures, d) >= Get(cb.failures, d)]_vars
    /\ [][\A w \in BagToSet(workers) : \A d \in Servers :
            FailureRecorded(w, d) /\ Get(cb.failures, d) = maxFailures - 1 =>
                /\ readable(cb', d)
                /\ ~allow(cb', d)]_vars

\* One worker: the domain is tripped by its first maxFailures failures, and
\* they were not consecutive: the last of them is link maxFailures + 2.
C37_Witness ==
    /\ config.MaxWorkers = 1
    /\ Len(errors) = maxFailures
    /\ errors[maxFailures].URL.path = maxFailures + 2
    /\ Get(cb.failures, failDomain) = maxFailures
    /\ probed[maxFailures + 3] = 0
    /\ skipped[maxFailures + 3] = 0
    /\ ~allow(cb, failDomain)


\* C38: a reported success of a tripped domain leaves its lastAttempt as it
\* was; when allow admitted the domain before the success (Half-Open), it
\* admits it afterwards with 1 or 2 successes counted, or the domain is
\* Closed by the recovery reset; a domain that allow admits stays admitted
\* in every step that reports no failure of it, and a worker that asks for
\* it meanwhile is sent to probe; with one worker a tripped domain with a
\* success counted is always admitted.
C38_HalfOpenSuccessKeepsAdmitting ==
    /\ [][\A w \in BagToSet(workers) : \A d \in Servers :
            SuccessRecorded(w, d) /\ readable(cb, d) /\ readable(cb', d) =>
                /\ Entry(cb', d)[3] = Entry(cb, d)[3]
                /\ Get(cb'.successes, d) \in 1..(successThreshold - 1)
                /\ allow(cb, d) => allow(cb', d)]_vars
    /\ [][\A d \in Servers :
            readable(cb, d) /\ allow(cb, d) /\ ~SomeFailureRecorded(d) =>
                allow(cb', d)]_vars
    /\ [][\A w \in BagToSet(workers) :
            Gated(w) /\ readable(cb, getDomain(w.link))
                     /\ Get(cb.successes, getDomain(w.link)) > 0
                     /\ allow(cb, getDomain(w.link)) =>
                /\ ~Denied(w)
                /\ \E v \in BagToSet(workers') :
                       v.pc = "probe" /\ v.link = w.link]_vars
    /\ [](config.MaxWorkers = 1 =>
            \A d \in Servers :
                readable(cb, d) /\ Get(cb.successes, d) > 0 => allow(cb, d))

\* Two workers: the tripped domain has a success counted, allow admits it,
\* and two further probes of it are in flight.
C38_Witness ==
    /\ config.MaxWorkers = 2
    /\ readable(cb, "recovering.com")
    /\ Get(cb.successes, "recovering.com") = 1
    /\ allow(cb, "recovering.com")
    /\ TrialsInFlight("recovering.com") = 2


\* Domain d is tripped and allow blocks it.
Blocked(d) == readable(cb, d) /\ ~allow(cb, d)

\* C39: while time keeps advancing a blocked domain is eventually admitted
\* again; a blocked domain has a stamp younger than retryDelay and a tripped
\* domain whose stamp is retryDelay old is admitted; the step that denies a
\* link leaves the breaker as it was; and the stamp of a domain is set or
\* made younger only by a step that reports a failure of the domain.
C39_OpenIsNeverPermanent ==
    /\ \A d \in Servers : Blocked(d) ~> allow(cb, d)
    /\ [](\A d \in Servers :
            /\ Blocked(d) => Entry(cb, d)[3] \in 0..(retryDelay - 1)
            /\ readable(cb, d) /\ Entry(cb, d)[3] >= retryDelay => allow(cb, d))
    /\ [][\A w \in BagToSet(workers) : Denied(w) =>
            /\ cb' = cb
            /\ Blocked(getDomain(w.link))']_vars
    /\ [][\A d \in Servers :
            /\ Entry(cb', d)[3] # -1
            /\ Entry(cb, d)[3] = -1 \/ Entry(cb', d)[3] < Entry(cb, d)[3]
            => SomeFailureRecorded(d)]_vars

\* bad.com was blocked, a link to it was denied, retryDelay has passed since
\* the last recorded failure and allow admits the domain again.
C39_Witness ==
    /\ readable(cb, "bad.com")
    /\ \E i \in DOMAIN skipped : skipped[i] > 0
    /\ Entry(cb, "bad.com")[3] = retryDelay
    /\ allow(cb, "bad.com")

====
